---- MODULE Spec2Model ----
(***************************************************************************)
(* Result-acquisition core of the exoplanet client: the poll loop          *)
(* (pollServerResponse), the response fetcher (fetchServerResponse, in its *)
(* bridge-first and its direct-only variant) and the JSONP bridge          *)
(* (fetchServerResponseJSONP); and the researchers page that drives them:  *)
(* the form handler (handleFormSubmit, processData) and the submission     *)
(* logger (logToGoogleSheets).                                             *)
(*                                                                         *)
(* JavaScript is run-to-completion: one action of this module is one task  *)
(* of the event loop (a timer, a script load, a fetch settling) together   *)
(* with every promise continuation it triggers, up to the next suspension. *)
(***************************************************************************)
EXTENDS Integers, FiniteSets, Sequences, TLC

(* ------------------------------ bounds -------------------------------- *)
\* the clock stops at MaxTime ticks
MaxTime == 3
\* pollServerResponse is called at a tick in 0..MaxStart
MaxStart == 1
\* options.interval is drawn from 1..MaxInterval ticks
MaxInterval == 2
\* options.timeout is drawn from 1..MaxTimeout ticks
MaxTimeout == 3
\* timeoutMs of the bridge, in ticks of the model clock
JsonpTimeoutTicks == 1
\* callback names are drawn from 1..NumTokens
NumTokens == 2
\* abandoned script requests still on the network, per callback name
MaxStale == 1
\* with the always-pending server: ticks a response takes at most
MaxLatency == 1
\* with the always-pending server: ticks the sleep timer fires late at most
MaxLate == 1
\* on the page: the clock is observed this many times per poll timeout
PageTicksPerTimeout == 3
\* accepted submissions of the form in the resubmission scenario
MaxSubmits == 2

(* ------------------------------- data --------------------------------- *)
\* the identifiers a caller polls for
ObjectIds == {"TOI-700", "K2-18"}

\* a JSON / JavaScript value of a response field
Absent == [t |-> "undefined", v |-> 0]
Num(n) == [t |-> "number", v |-> n]
NaNValue == [t |-> "nan", v |-> 0]
InfinityValue == [t |-> "infinity", v |-> 0]
Str(n) == [t |-> "string", v |-> n]

\* typeof x === "number": NaN and +-Infinity are numbers to typeof
TypeofNumber(x) == x.t \in {"number", "nan", "infinity"}

\* a response body: falsy (null) or an object with the fields the code reads
Resp(st, pr, pe) == [isNull |-> FALSE, status |-> st, procent |-> pr, percent |-> pe]
NullData == [isNull |-> TRUE, status |-> "", procent |-> Absent, percent |-> Absent]

\* the bodies the server may send
Responses ==
  { Resp("pending", Absent, Absent),
    Resp("", Absent, Absent),
    Resp("", Num(87), Absent),
    Resp("pending", Num(87), Absent),
    Resp("", NaNValue, Absent),
    Resp("", InfinityValue, Absent),
    Resp("", Str(87), Absent),
    Resp("", Absent, Num(87)),
    NullData }

\* res.json() cannot yield NaN (JSON has no such literal; 1e999 parses to
\* Infinity): a body with NaN reaches the code only as a script's argument
JsonBodies(bodies) == {r \in bodies : r.procent.t # "nan" /\ r.percent.t # "nan"}

\* data && data.status === "pending"
IsPendingMarked(data) == ~data.isNull /\ data.status = "pending"
\* data && typeof data.procent === "number"
HasNumericProcent(data) == ~data.isNull /\ TypeofNumber(data.procent)

\* the result of an awaited call: a value or a thrown error
Returned(data) == [ok |-> TRUE, data |-> data, err |-> ""]
Thrown(e) == [ok |-> FALSE, data |-> NullData, err |-> e]
NoOutcome == [ok |-> FALSE, data |-> NullData, err |-> "unsettled"]

\* the errors of the direct GET: fetch() rejects, !res.ok, res.json() rejects
GetErrors == {"NetworkError", "HttpError", "ParseError"}

\* the configured GET endpoint, by what the guards ask of the string
Endpoint(ne, id, idHere, url) ==
  [nonEmpty |-> ne, hasDeployId |-> id, hasDeployIdHere |-> idHere, hasDeployUrl |-> url]
Endpoints ==
  { Endpoint(FALSE, FALSE, FALSE, FALSE),
    Endpoint(TRUE, TRUE, FALSE, FALSE),
    Endpoint(TRUE, TRUE, TRUE, FALSE),
    Endpoint(TRUE, FALSE, FALSE, TRUE),
    Endpoint(TRUE, FALSE, FALSE, FALSE) }

\* the two versions of api.js
Variants == {"bridge", "direct"}

Tokens == 1..NumTokens


(* ------------------------------- state -------------------------------- *)
VARIABLES
  endpoint,   \* GOOGLE_SHEETS_GET_ENDPOINT
  variant,    \* which version of fetchServerResponse is loaded
  now,        \* Date.now(), in ticks
  poll,       \* the locals of the running pollServerResponse and what its callbacks saw
  call,       \* the fetchServerResponse call the poll loop awaits
  br,         \* the closure of the latest fetchServerResponseJSONP invocation
  registry,   \* the callback names defined on window
  stale,      \* script requests still on the network after their invocation settled
  net,        \* whether a script element was ever injected and a GET ever issued
  postEndpoint, \* GOOGLE_SHEETS_ENDPOINT
  log,        \* the logToGoogleSheets call of the submission
  page        \* the state of the researchers page

vars == <<endpoint, variant, now, poll, call, br, registry, stale, net, postEndpoint, log, page>>

(* ------------------------- submission logger -------------------------- *)
\* one call of logToGoogleSheets: where it is, the POSTs it issued (by fetch
\* mode), how each attempt ended and what the call returned
LogInit ==
  [stage |-> "none", posts |-> <<>>, first |-> "", second |-> "", result |-> "none"]

\* a guard that only looks for the placeholder markers
LogEndpointSetBridgeIgnoresEmpty(e) ==
  ~e.hasDeployId /\ ~e.hasDeployIdHere /\ ~e.hasDeployUrl

\* the guard of logToGoogleSheets next to the bridge-first fetcher: non-empty
\* and none of YOUR_POST_DEPLOY_ID, YOUR_POST_DEPLOY_ID_HERE, YOUR_POST_DEPLOY_URL
LogEndpointSetBridge(e) ==
  e.nonEmpty /\ ~e.hasDeployId /\ ~e.hasDeployIdHere /\ ~e.hasDeployUrl

\* the guard of logToGoogleSheets next to the direct-only fetcher: non-empty
\* and without YOUR_POST_DEPLOY_ID
LogEndpointSetDirect(e) ==
  e.nonEmpty /\ ~e.hasDeployId

LogEndpointConfigured(v, e) ==
  IF v = "bridge" THEN LogEndpointSetBridge(e) ELSE LogEndpointSetDirect(e)

\* logToGoogleSheets(formData) up to its first await
logToGoogleSheets(v, e) ==
  IF ~LogEndpointConfigured(v, e)
    THEN [LogInit EXCEPT !.stage = "done", !.result = "false"]
    ELSE [LogInit EXCEPT !.stage = "post1", !.posts = <<"cors">>]

\* a logger that gives up on a response with a bad status
AfterFirstPostNoFallbackOnStatus(l, outcome) ==
  IF outcome = "ok"
    THEN [l EXCEPT !.first = outcome, !.stage = "done", !.result = "true"]
    ELSE IF outcome = "status"
      THEN [l EXCEPT !.first = outcome, !.stage = "done", !.result = "false"]
      ELSE [l EXCEPT !.first = outcome, !.stage = "post2", !.posts = Append(@, "no-cors")]

\* the normal POST ended: "ok" (resp.ok), "status" (a response that is not ok)
\* or "threw" (fetch rejected); all but "ok" go on to the no-cors POST
AfterFirstPost(l, outcome) ==
  IF outcome = "ok"
    THEN [l EXCEPT !.first = outcome, !.stage = "done", !.result = "true"]
    ELSE [l EXCEPT !.first = outcome, !.stage = "post2", !.posts = Append(@, "no-cors")]

\* a logger that reports success although the no-cors POST threw
AfterSecondPostAlwaysTrue(l, outcome) ==
  [l EXCEPT !.second = outcome, !.stage = "done", !.result = "true"]

\* the no-cors POST ended: "sent" (fetch resolved, the response is opaque) or
\* "threw" (fetch rejected)
AfterSecondPost(l, outcome) ==
  [l EXCEPT !.second = outcome, !.stage = "done",
            !.result = IF outcome = "sent" THEN "true" ELSE "false"]

(* -------------------------- researchers page -------------------------- *)
\* const pollOptions = { interval: 10000, timeout: 120000, ... }
pollOptions == [interval |-> 10000, timeout |-> 120000]

\* currentResults: null or the results object; probability is kept in
\* hundredths, summary tells a server result from the local estimator's, and
\* "of" records the submission whose processing created the object
NoResults == [isNull |-> TRUE, probability |-> Absent, procent |-> Absent, summary |-> "", of |-> 0]

\* the page after loading; submits counts the accepted submissions and
\* submitIgnored tells that a submit event was dropped during the current one
PageInit ==
  [processingInProgress |-> FALSE, currentFormData |-> "",
   currentResults |-> NoResults, resultsShown |-> FALSE, notice |-> "",
   submits |-> 0, submitIgnored |-> FALSE]

\* const USE_MOCK_FALLBACK = false
USE_MOCK_FALLBACK == FALSE

\* the forms a user submits: object_id filled in or left empty
Forms == ObjectIds \cup {""}

\* a page that stores procent / 100 as it comes
ProbabilityUnclamped(pr) ==
  IF pr.t = "nan" THEN NaNValue
  ELSE IF pr.t = "infinity" THEN InfinityValue
  ELSE Num(pr.v)

\* Math.max(0, Math.min(1, procent / 100)), in hundredths
Probability(pr) ==
  IF pr.t = "nan" THEN NaNValue
  ELSE IF pr.t = "infinity" THEN Num(100)
  ELSE Num(IF pr.v < 0 THEN 0 ELSE IF pr.v > 100 THEN 100 ELSE pr.v)

\* processData after the await of pollServerResponse: p is the poll once it
\* has settled (a rejection is caught and leaves serverResp null)
processDataResumes(pg, p) ==
  IF pg.processingInProgress /\ p.pc \in {"resolved", "rejected"}
    THEN LET serverResp == IF p.pc = "resolved" THEN p.result.data ELSE NullData
         IN IF HasNumericProcent(serverResp)
              THEN [pg EXCEPT !.currentResults =
                                [isNull |-> FALSE,
                                 probability |-> Probability(serverResp.procent),
                                 procent |-> serverResp.procent,
                                 summary |-> "server", of |-> pg.submits],
                              !.resultsShown = TRUE,
                              !.processingInProgress = FALSE]
              ELSE IF USE_MOCK_FALLBACK
                THEN [pg EXCEPT !.currentResults =
                                  [isNull |-> FALSE, probability |-> Absent,
                                   procent |-> Absent,
                                   summary |-> "local mock fallback", of |-> pg.submits],
                                !.resultsShown = TRUE,
                                !.notice = "MockShown",
                                !.processingInProgress = FALSE]
                ELSE [pg EXCEPT !.notice = "NoResponse", !.processingInProgress = FALSE]
    ELSE pg

\* whoever awaits the poll loop resumes in the step that settles it; the
\* logger is not involved
AwaitersResume ==
  /\ page' = processDataResumes(page, poll')
  /\ UNCHANGED <<postEndpoint, log>>

(* ------------------------ initial state ------------------------------ *)
PollInit ==
  [pc |-> "idle", id |-> "", interval |-> 0, timeout |-> 0, start |-> 0, wakeAt |-> 0,
   result |-> NoOutcome, fetchCount |-> 0, lastFetchAt |-> 0,
   pendingCalls |-> 0, iterPending |-> 0, errorCalls |-> 0, lastErrArg |-> "",
   fetchErrors |-> 0, firstFiniteAt |-> 0]

CallInit ==
  [stage |-> "none", id |-> "", bridgeErr |-> "", getId |-> "", gets |-> 0,
   getResult |-> NoOutcome, result |-> NoOutcome]

BridgeInit ==
  [state |-> "none", value |-> NoOutcome, token |-> 0, timerArmed |-> FALSE, timerDue |-> 0,
   attached |-> FALSE, req |-> FALSE, first |-> "", timerWasDue |-> FALSE,
   settles |-> 0, teardowns |-> 0]

Init ==
  /\ endpoint \in Endpoints
  /\ variant \in Variants
  /\ now = 0
  /\ poll = PollInit
  /\ call = CallInit
  /\ br = BridgeInit
  /\ registry = {}
  /\ stale = [t \in Tokens |-> 0]
  /\ net = [script |-> FALSE, get |-> FALSE]
  /\ postEndpoint = Endpoint(TRUE, FALSE, FALSE, FALSE)
  /\ log = LogInit
  /\ page = PageInit

\* requests on the network: the bridge's script, the direct GET, abandoned scripts
RECURSIVE SumStale(_)
SumStale(S) == IF S = {} THEN 0 ELSE LET t == CHOOSE x \in S : TRUE IN stale[t] + SumStale(S \ {t})
InFlight ==
  (IF br.req THEN 1 ELSE 0) + (IF call.stage = "get" THEN 1 ELSE 0) + SumStale(Tokens)


(* ------------------------------- clock -------------------------------- *)
\* time passes, before the call (up to MaxStart) and while the loop runs;
\* timers and responses may be arbitrarily late
Tick ==
  /\ now < MaxTime
  /\ \/ poll.pc = "idle" /\ now < MaxStart
     \/ poll.pc \in {"fetching", "sleeping"}
  /\ now' = now + 1
  /\ UNCHANGED <<endpoint, variant, poll, call, br, registry, stale, net>>
  /\ AwaitersResume

(* ----------------------------- poll loop ------------------------------ *)
\* a loop that does not wait between two attempts
PollSleepNoDelay(p) == [p EXCEPT !.pc = "sleeping", !.wakeAt = now]

\* await new Promise((r) => setTimeout(r, interval))
PollSleep(p) == [p EXCEPT !.pc = "sleeping", !.wakeAt = now + p.interval]

\* a catch block that goes straight to the next attempt
PollCatchRetriesAtOnce(p, err, onErrorThrows) ==
  LET p1 == [p EXCEPT !.errorCalls = @ + 1, !.lastErrArg = err]
  IN IF onErrorThrows
       THEN [p1 EXCEPT !.pc = "rejected", !.result = Thrown("OnErrorThrew")]
       ELSE [p1 EXCEPT !.pc = "sleeping", !.wakeAt = now]

\* catch (err) { onError(err); ... }: an exception of onError itself leaves the function
PollCatch(p, err, onErrorThrows) ==
  LET p1 == [p EXCEPT !.errorCalls = @ + 1, !.lastErrArg = err]
  IN IF onErrorThrows
       THEN [p1 EXCEPT !.pc = "rejected", !.result = Thrown("OnErrorThrew")]
       ELSE PollSleep(p1)

\* a try block that never reports a pending response
PollAfterDataSilent(p, data, onPendingThrowsAt, onErrorThrows) ==
  IF HasNumericProcent(data)
    THEN [p EXCEPT !.pc = "resolved", !.result = Returned(data)]
    ELSE PollSleep(p)

\* a try block without the test for the explicit marker
PollAfterDataIgnoresMarker(p, data, onPendingThrowsAt, onErrorThrows) ==
  IF HasNumericProcent(data)
    THEN [p EXCEPT !.pc = "resolved", !.result = Returned(data)]
    ELSE LET p2 == [p EXCEPT !.pendingCalls = @ + 1, !.iterPending = @ + 1]
         IN IF onPendingThrowsAt = 1
              THEN PollCatch(p2, "OnPendingThrew", onErrorThrows)
              ELSE PollSleep(p2)

\* a try block that reads the deadline again before it returns
PollAfterDataChecksDeadline(p, data, onPendingThrowsAt, onErrorThrows) ==
  IF now - p.start >= p.timeout
    THEN [p EXCEPT !.pc = "rejected", !.result = Thrown("PollTimeout")]
    ELSE IF HasNumericProcent(data)
      THEN [p EXCEPT !.pc = "resolved", !.result = Returned(data),
                     !.pendingCalls = @ + (IF IsPendingMarked(data) THEN 1 ELSE 0),
                     !.iterPending = (IF IsPendingMarked(data) THEN 1 ELSE 0)]
      ELSE PollSleep([p EXCEPT !.pendingCalls = @ + ((IF IsPendingMarked(data) THEN 1 ELSE 0) + 1),
                               !.iterPending = ((IF IsPendingMarked(data) THEN 1 ELSE 0) + 1)])

\* a try block whose onPending calls are not guarded by the catch
PollAfterDataPendingEscapes(p, data, onPendingThrowsAt, onErrorThrows) ==
  LET marked == IsPendingMarked(data)
      p1 == IF marked THEN [p EXCEPT !.pendingCalls = @ + 1, !.iterPending = 1] ELSE p
  IN IF marked /\ onPendingThrowsAt = 1
       THEN [p1 EXCEPT !.pc = "rejected", !.result = Thrown("OnPendingThrew")]
       ELSE IF HasNumericProcent(data)
         THEN [p1 EXCEPT !.pc = "resolved", !.result = Returned(data)]
         ELSE LET p2 == [p1 EXCEPT !.pendingCalls = @ + 1, !.iterPending = @ + 1]
              IN IF onPendingThrowsAt = p2.iterPending
                   THEN [p2 EXCEPT !.pc = "rejected", !.result = Thrown("OnPendingThrew")]
                   ELSE PollSleep(p2)

\* the body of the try block once fetchServerResponse has returned data;
\* onPendingThrowsAt is the ordinal of the onPending call of this iteration that throws (0: none)
PollAfterData(p, data, onPendingThrowsAt, onErrorThrows) ==
  LET marked == IsPendingMarked(data)
      p0 == [p EXCEPT !.firstFiniteAt =
                        IF @ = 0 /\ ~data.isNull /\ data.procent.t = "number"
                          THEN p.fetchCount ELSE @]
      p1 == IF marked THEN [p0 EXCEPT !.pendingCalls = @ + 1, !.iterPending = 1] ELSE p0
  IN IF marked /\ onPendingThrowsAt = 1
       THEN PollCatch(p1, "OnPendingThrew", onErrorThrows)
       ELSE IF HasNumericProcent(data)
         THEN [p1 EXCEPT !.pc = "resolved", !.result = Returned(data)]
         ELSE LET p2 == [p1 EXCEPT !.pendingCalls = @ + 1, !.iterPending = @ + 1]
              IN IF onPendingThrowsAt = p2.iterPending
                   THEN PollCatch(p2, "OnPendingThrew", onErrorThrows)
                   ELSE PollSleep(p2)

\* a loop whose catch block rethrows what the fetcher threw
PollAfterErrorRethrows(p, err, onErrorThrows) ==
  [p EXCEPT !.fetchErrors = @ + 1, !.errorCalls = @ + 1, !.lastErrArg = err,
            !.pc = "rejected", !.result = Thrown(err)]

\* the await of fetchServerResponse threw err
PollAfterError(p, err, onErrorThrows) ==
  PollCatch([p EXCEPT !.fetchErrors = @ + 1], err, onErrorThrows)

(* -------------------------- response fetcher -------------------------- *)
\* a guard that only looks for the placeholder markers
EndpointSetBridgeIgnoresEmpty(e) ==
  ~e.hasDeployId /\ ~e.hasDeployIdHere /\ ~e.hasDeployUrl

\* the guard of the bridge-first version: non-empty and none of its three markers
EndpointSetBridge(e) ==
  e.nonEmpty /\ ~e.hasDeployId /\ ~e.hasDeployIdHere /\ ~e.hasDeployUrl

\* the guard of the direct-only version: non-empty and without its one marker
EndpointSetDirect(e) ==
  e.nonEmpty /\ ~e.hasDeployId

\* the guard at the top of fetchServerResponse, in the version that is loaded
EndpointConfigured(v, e) ==
  IF v = "bridge" THEN EndpointSetBridge(e) ELSE EndpointSetDirect(e)

\* fetch(url, {method: "GET", ...}) for object_id
IssueGet(c, object_id) ==
  [c EXCEPT !.stage = "get", !.getId = object_id, !.gets = @ + 1]

(* ---------------------------- JSONP bridge ---------------------------- *)
\* resolve / reject of the bridge's promise: only the first call settles it
Settle(b, outcome) ==
  LET b1 == [b EXCEPT !.settles = @ + 1]
  IN IF b.state = "pending"
       THEN [b1 EXCEPT !.state = IF outcome.ok THEN "resolved" ELSE "rejected",
                      !.value = outcome, !.timerWasDue = (now >= b.timerDue)]
       ELSE b1

\* a cleanup that leaves the timeout guard armed
cleanupKeepsTimer(b, reg) ==
  [br |-> [b EXCEPT !.attached = FALSE,
                    !.teardowns = IF b.attached \/ b.token \in reg THEN @ + 1 ELSE @],
   registry |-> reg \ {b.token}]

\* cleanup(): detach the script, delete window[callbackName], clear the timer
cleanup(b, reg) ==
  [br |-> [b EXCEPT !.attached = FALSE, !.timerArmed = FALSE,
                    !.teardowns = IF b.attached \/ b.timerArmed \/ b.token \in reg
                                    THEN @ + 1 ELSE @],
   registry |-> reg \ {b.token}]

\* a bridge that never arms its timeout guard
fetchServerResponseJSONPNoTimer(token) ==
  IF ~endpoint.nonEmpty
    THEN [br |-> [BridgeInit EXCEPT !.state = "rejected", !.value = Thrown("ConfigError"),
                                    !.settles = 1],
          registry |-> registry]
    ELSE [br |-> [BridgeInit EXCEPT !.state = "pending", !.token = token,
                                    !.timerDue = now + JsonpTimeoutTicks,
                                    !.attached = TRUE, !.req = TRUE],
          registry |-> registry \cup {token}]

\* the synchronous body of new Promise(...) in fetchServerResponseJSONP
fetchServerResponseJSONP(token) ==
  IF ~endpoint.nonEmpty
    THEN [br |-> [BridgeInit EXCEPT !.state = "rejected", !.value = Thrown("ConfigError"),
                                    !.settles = 1],
          registry |-> registry]
    ELSE [br |-> [BridgeInit EXCEPT !.state = "pending", !.token = token,
                                    !.timerArmed = TRUE, !.timerDue = now + JsonpTimeoutTicks,
                                    !.attached = TRUE, !.req = TRUE],
          registry |-> registry \cup {token}]

\* the request of the previous invocation's script, if it is still on the
\* network, outlives the closure that started it
Abandon(b) == IF b.req THEN [stale EXCEPT ![b.token] = @ + 1] ELSE stale

\* a fetcher that gives up when the bridge fails
AfterBridgeNoFallback(outcome, onPendingThrowsAt, onErrorThrows) ==
  /\ call' = [call EXCEPT !.stage = "done", !.result = outcome,
                          !.bridgeErr = IF outcome.ok THEN @ ELSE outcome.err]
  /\ poll' = IF outcome.ok
               THEN PollAfterData(poll, outcome.data, onPendingThrowsAt, onErrorThrows)
               ELSE PollAfterError(poll, outcome.err, onErrorThrows)
  /\ net' = net

\* fetchServerResponse resumes after the bridge's promise settled with outcome
AfterBridge(outcome, onPendingThrowsAt, onErrorThrows) ==
  IF outcome.ok
    THEN /\ call' = [call EXCEPT !.stage = "done", !.result = outcome]
         /\ poll' = PollAfterData(poll, outcome.data, onPendingThrowsAt, onErrorThrows)
         /\ net' = net
    ELSE /\ call' = [IssueGet(call, call.id) EXCEPT !.bridgeErr = outcome.err]
         /\ net' = [net EXCEPT !.get = TRUE]
         /\ poll' = poll

\* a fetcher whose configuration error ends the poll run
fetchServerResponseConfigFatal(p, token, onErrorThrows) ==
  LET c == [CallInit EXCEPT !.id = p.id]
  IN IF ~EndpointConfigured(variant, endpoint)
       THEN /\ call' = [c EXCEPT !.stage = "done", !.result = Thrown("ConfigError")]
            /\ poll' = [p EXCEPT !.fetchErrors = @ + 1, !.pc = "rejected",
                                 !.result = Thrown("ConfigError")]
            /\ UNCHANGED <<br, registry, stale, net>>
       ELSE IF variant = "bridge"
         THEN LET j == fetchServerResponseJSONP(token)
              IN /\ br' = j.br
                 /\ registry' = j.registry
                 /\ stale' = Abandon(br)
                 /\ poll' = p
                 /\ IF j.br.state = "pending"
                      THEN /\ call' = [c EXCEPT !.stage = "bridge"]
                           /\ net' = [net EXCEPT !.script = TRUE]
                      ELSE /\ call' = [IssueGet(c, p.id) EXCEPT !.bridgeErr = j.br.value.err]
                           /\ net' = [net EXCEPT !.get = TRUE]
         ELSE /\ call' = IssueGet(c, p.id)
              /\ net' = [net EXCEPT !.get = TRUE]
              /\ poll' = p
              /\ UNCHANGED <<br, registry, stale>>

\* fetchServerResponse(object_id) up to its first await, called from the poll loop
fetchServerResponse(p, token, onErrorThrows) ==
  LET c == [CallInit EXCEPT !.id = p.id]
  IN IF ~EndpointConfigured(variant, endpoint)
       THEN /\ call' = [c EXCEPT !.stage = "done", !.result = Thrown("ConfigError")]
            /\ poll' = PollAfterError(p, "ConfigError", onErrorThrows)
            /\ UNCHANGED <<br, registry, stale, net>>
       ELSE IF variant = "bridge"
         THEN LET j == fetchServerResponseJSONP(token)
              IN /\ br' = j.br
                 /\ registry' = j.registry
                 /\ stale' = Abandon(br)
                 /\ poll' = p
                 /\ IF j.br.state = "pending"
                      THEN /\ call' = [c EXCEPT !.stage = "bridge"]
                           /\ net' = [net EXCEPT !.script = TRUE]
                      ELSE \* the bridge refused synchronously: straight to the catch block
                           /\ call' = [IssueGet(c, p.id) EXCEPT !.bridgeErr = j.br.value.err]
                           /\ net' = [net EXCEPT !.get = TRUE]
         ELSE /\ call' = IssueGet(c, p.id)
              /\ net' = [net EXCEPT !.get = TRUE]
              /\ poll' = p
              /\ UNCHANGED <<br, registry, stale>>

\* a loop that still iterates when the elapsed time equals the timeout
LoopTopInclusive(p, token, onErrorThrows) ==
  IF now - p.start <= p.timeout
    THEN fetchServerResponse([p EXCEPT !.pc = "fetching", !.fetchCount = @ + 1,
                                       !.lastFetchAt = now, !.iterPending = 0],
                             token, onErrorThrows)
    ELSE /\ poll' = [p EXCEPT !.pc = "rejected", !.result = Thrown("PollTimeout")]
         /\ UNCHANGED <<call, br, registry, stale, net>>

\* while (Date.now() - start < timeout) { ... } throw new Error("Polling timed out ...")
LoopTop(p, token, onErrorThrows) ==
  IF now - p.start < p.timeout
    THEN fetchServerResponse([p EXCEPT !.pc = "fetching", !.fetchCount = @ + 1,
                                       !.lastFetchAt = now, !.iterPending = 0],
                             token, onErrorThrows)
    ELSE /\ poll' = [p EXCEPT !.pc = "rejected", !.result = Thrown("PollTimeout")]
         /\ UNCHANGED <<call, br, registry, stale, net>>

\* a caller invokes pollServerResponse(object_id, {interval, timeout, onPending, onError})
\* with arguments from the given sets
PollCall(ids, intervals, timeouts, errThrows) ==
  /\ poll.pc = "idle"
  /\ \E object_id \in ids, i \in intervals, t \in timeouts,
        token \in Tokens, onErrorThrows \in errThrows :
       LoopTop([poll EXCEPT !.id = object_id, !.interval = i, !.timeout = t, !.start = now],
               token, onErrorThrows)
  /\ UNCHANGED <<endpoint, variant, now>>
  /\ AwaitersResume

pollServerResponse == PollCall(ObjectIds, 1..MaxInterval, 1..MaxTimeout, BOOLEAN)

\* the sleep timer of the loop fires and the while condition is evaluated again
PollWakes(errThrows) ==
  /\ poll.pc = "sleeping"
  /\ now >= poll.wakeAt
  /\ \E token \in Tokens, onErrorThrows \in errThrows : LoopTop(poll, token, onErrorThrows)
  /\ UNCHANGED <<endpoint, variant, now>>
  /\ AwaitersResume

PollWake == PollWakes(BOOLEAN)

\* how often the try block calls onPending for data when nothing throws
OnPendingCalls(data) ==
  (IF IsPendingMarked(data) THEN 1 ELSE 0) + (IF HasNumericProcent(data) THEN 0 ELSE 1)

\* which of those calls may throw, and whether onError can be reached at all
ThrowsAt(data, pendThrows) == {k \in pendThrows : k <= OnPendingCalls(data)}
ThrowsIn(onPendingThrowsAt, errThrows) == IF onPendingThrowsAt = 0 THEN {FALSE} ELSE errThrows

\* the direct GET answers with a success status and one of the given JSON bodies
GetAnswers(bodies, pendThrows, errThrows) ==
  /\ call.stage = "get"
  /\ \E data \in bodies : \E onPendingThrowsAt \in ThrowsAt(data, pendThrows) :
     \E onErrorThrows \in ThrowsIn(onPendingThrowsAt, errThrows) :
       /\ call' = [call EXCEPT !.stage = "done", !.getResult = Returned(data),
                               !.result = Returned(data)]
       /\ poll' = PollAfterData(poll, data, onPendingThrowsAt, onErrorThrows)
  /\ UNCHANGED <<endpoint, variant, now, br, registry, stale, net>>
  /\ AwaitersResume

GetReturns == GetAnswers(JsonBodies(Responses), 0..2, BOOLEAN)

\* the direct GET fails: fetch rejects, the status is not ok, or the body is not JSON
GetThrows(errs, errThrows) ==
  /\ call.stage = "get"
  /\ \E err \in errs, onErrorThrows \in errThrows :
       /\ call' = [call EXCEPT !.stage = "done", !.getResult = Thrown(err),
                               !.result = Thrown(err)]
       /\ poll' = PollAfterError(poll, err, onErrorThrows)
  /\ UNCHANGED <<endpoint, variant, now, br, registry, stale, net>>
  /\ AwaitersResume

\* a catch block that rethrows the bridge's error when the direct GET fails too
GetFailsWithBridgeError ==
  /\ call.stage = "get"
  /\ \E err \in GetErrors, onErrorThrows \in BOOLEAN :
       LET e == IF call.bridgeErr # "" THEN call.bridgeErr ELSE err
       IN /\ call' = [call EXCEPT !.stage = "done", !.getResult = Thrown(err),
                                  !.result = Thrown(e)]
          /\ poll' = PollAfterError(poll, e, onErrorThrows)
  /\ UNCHANGED <<endpoint, variant, now, br, registry, stale, net>>
  /\ AwaitersResume

GetFails == GetThrows(GetErrors, BOOLEAN)

(* ------------------------- bridge: its events ------------------------- *)
\* window[callbackName] = (data) => { cleanup(); resolve(data); }
CallbackHandler(b, reg, data) ==
  LET c == cleanup(b, reg)
      s == Settle(c.br, Returned(data))
  IN [br |-> [s EXCEPT !.first = IF @ = "" THEN "callback" ELSE @], registry |-> c.registry]

\* script.onerror = () => { cleanup(); reject(new Error("JSONP script load error")); }
ErrorHandler(b, reg) ==
  LET c == cleanup(b, reg)
      s == Settle(c.br, Thrown("JsonpLoadError"))
  IN [br |-> [s EXCEPT !.first = IF @ = "" THEN "error" ELSE @], registry |-> c.registry]

\* a timeout guard that tears down but forgets to reject
TimeoutHandlerNoReject(b, reg) ==
  LET c == cleanup(b, reg)
  IN [br |-> [c.br EXCEPT !.first = IF @ = "" THEN "timeout" ELSE @], registry |-> c.registry]

\* setTimeout(() => { cleanup(); reject(new Error("JSONP request timed out")); }, timeoutMs)
TimeoutHandler(b, reg) ==
  LET c == cleanup(b, reg)
      s == Settle(c.br, Thrown("JsonpTimeout"))
  IN [br |-> [s EXCEPT !.first = IF @ = "" THEN "timeout" ELSE @], registry |-> c.registry]

\* what the continuations do once a handler of the bridge has run: b is the
\* closure before the handler, h its result
AfterHandler(b, h, onPendingThrowsAt, onErrorThrows) ==
  IF b.state = "pending" /\ h.br.state # "pending"
    THEN AfterBridge(h.br.value, onPendingThrowsAt, onErrorThrows)
    ELSE UNCHANGED <<poll, call, net>>

\* the script of the latest invocation has loaded and executes callbackName(data)
\* for one of the given bodies
ScriptCalls(bodies, pendThrows, errThrows) ==
  /\ br.req
  /\ IF br.token \in registry
       THEN \E data \in bodies : \E onPendingThrowsAt \in ThrowsAt(data, pendThrows) :
            \E onErrorThrows \in ThrowsIn(onPendingThrowsAt, errThrows) :
              LET h == CallbackHandler(br, registry, data)
              IN /\ br' = [h.br EXCEPT !.req = FALSE]
                 /\ registry' = h.registry
                 /\ AfterHandler(br, h, onPendingThrowsAt, onErrorThrows)
       ELSE \* the name is not defined any more: a ReferenceError inside the script
            /\ br' = [br EXCEPT !.req = FALSE]
            /\ UNCHANGED <<registry, poll, call, net>>
  /\ UNCHANGED <<endpoint, variant, now, stale>>
  /\ AwaitersResume

JsonpCallback == ScriptCalls(Responses, 0..2, BOOLEAN)

\* the script of the latest invocation fails to load
JsonpScriptError ==
  /\ br.req
  /\ LET h == ErrorHandler(br, registry)
     IN /\ br' = [h.br EXCEPT !.req = FALSE]
        /\ registry' = h.registry
        /\ AfterHandler(br, h, 0, FALSE)
  /\ UNCHANGED <<endpoint, variant, now, stale>>
  /\ AwaitersResume

\* the timeout guard fires; removeChild does not abort the load, so the
\* detached script's request is dropped by the browser or stays on the network
JsonpTimeoutFires ==
  /\ br.timerArmed
  /\ now >= br.timerDue
  /\ \E keep \in BOOLEAN :
       /\ keep => (br.req /\ stale[br.token] < MaxStale)
       /\ LET h == TimeoutHandler(br, registry)
          IN /\ br' = [h.br EXCEPT !.req = keep]
             /\ registry' = h.registry
             /\ AfterHandler(br, h, 0, FALSE)
  /\ UNCHANGED <<endpoint, variant, now, stale>>
  /\ AwaitersResume

\* the script of an earlier invocation loads after all and executes its callbackName(data)
StaleScriptCalls(bodies, pendThrows, errThrows) ==
  /\ \E t \in Tokens :
       /\ stale[t] > 0
       /\ stale' = [stale EXCEPT ![t] = @ - 1]
       /\ IF t \in registry
            THEN \* the name is defined again, by the latest invocation
                 \E data \in bodies, keep \in BOOLEAN :
                 \E onPendingThrowsAt \in ThrowsAt(data, pendThrows) :
                 \E onErrorThrows \in ThrowsIn(onPendingThrowsAt, errThrows) :
                   LET h == CallbackHandler(br, registry, data)
                   IN /\ keep => br.req
                      /\ br' = [h.br EXCEPT !.req = keep]
                      /\ registry' = h.registry
                      /\ AfterHandler(br, h, onPendingThrowsAt, onErrorThrows)
            ELSE \* a ReferenceError inside the script
                 UNCHANGED <<br, registry, poll, call, net>>
  /\ UNCHANGED <<endpoint, variant, now>>
  /\ AwaitersResume

StaleScriptRuns == StaleScriptCalls(Responses, 0..2, BOOLEAN)

\* the script of an earlier invocation fails to load: the onerror of its own
\* closure runs cleanup() for its callbackName and rejects its settled promise
StaleScriptError ==
  /\ \E t \in Tokens :
       /\ stale[t] > 0
       /\ stale' = [stale EXCEPT ![t] = @ - 1]
       /\ registry' = registry \ {t}
  /\ UNCHANGED <<endpoint, variant, now, poll, call, br, net>>
  /\ AwaitersResume

(* --------------------------- specification ---------------------------- *)
Next ==
  \/ Tick
  \/ pollServerResponse
  \/ PollWake
  \/ GetReturns
  \/ GetFails
  \/ JsonpCallback
  \/ JsonpScriptError
  \/ JsonpTimeoutFires
  \/ StaleScriptRuns
  \/ StaleScriptError

Spec == Init /\ [][Next]_vars

TypeOK ==
  /\ now \in 0..MaxTime
  /\ poll.pc \in {"idle", "fetching", "sleeping", "resolved", "rejected"}
  /\ call.stage \in {"none", "bridge", "get", "done"}
  /\ br.state \in {"none", "pending", "resolved", "rejected"}
  /\ registry \subseteq Tokens
  /\ \A t \in Tokens : stale[t] \in 0..MaxStale

(* ---------------- a server that always answers "pending" ------------- *)
\* the options of the scenario: interval 10 ms, timeout 50 ms
AlwaysPendingOptions == [id |-> "TOI-700", interval |-> 10, timeout |-> 50]
AlwaysPendingBody == Resp("pending", Absent, Absent)

InitAlwaysPending ==
  /\ endpoint = Endpoint(TRUE, FALSE, FALSE, FALSE)
  /\ variant \in Variants
  /\ now = 0
  /\ poll = PollInit
  /\ call = CallInit
  /\ br = BridgeInit
  /\ registry = {}
  /\ stale = [t \in Tokens |-> 0]
  /\ net = [script |-> FALSE, get |-> FALSE]
  /\ postEndpoint = Endpoint(TRUE, FALSE, FALSE, FALSE)
  /\ log = LogInit
  /\ page = PageInit

\* time passes while the loop is suspended; a response takes at most
\* MaxLatency ticks and the sleep timer fires at most MaxLate ticks late
TickAlwaysPending ==
  /\ poll.pc \in {"fetching", "sleeping"}
  /\ poll.pc = "sleeping" => now < poll.wakeAt + MaxLate
  /\ poll.pc = "fetching" => now < poll.lastFetchAt + MaxLatency
  /\ now' = now + 1
  /\ UNCHANGED <<endpoint, variant, poll, call, br, registry, stale, net>>
  /\ AwaitersResume

PollCallAlwaysPending ==
  PollCall({AlwaysPendingOptions.id}, {AlwaysPendingOptions.interval},
           {AlwaysPendingOptions.timeout}, {FALSE})
PollWakeAlwaysPending == PollWakes({FALSE})
GetReturnsPending == GetAnswers({AlwaysPendingBody}, {0}, {FALSE})
JsonpCallbackPending == ScriptCalls({AlwaysPendingBody}, {0}, {FALSE})

NextAlwaysPending ==
  \/ TickAlwaysPending
  \/ PollCallAlwaysPending
  \/ PollWakeAlwaysPending
  \/ GetReturnsPending
  \/ JsonpCallbackPending

\* every timer fires and every request is answered
SpecAlwaysPending ==
  InitAlwaysPending /\ [][NextAlwaysPending]_vars /\ WF_vars(NextAlwaysPending)

(* ------------- the bridge with timers that always fire --------------- *)
InitTimers ==
  /\ endpoint = Endpoint(TRUE, FALSE, FALSE, FALSE)
  /\ variant = "bridge"
  /\ now = 0
  /\ poll = PollInit
  /\ call = CallInit
  /\ br = BridgeInit
  /\ registry = {}
  /\ stale = [t \in Tokens |-> 0]
  /\ net = [script |-> FALSE, get |-> FALSE]
  /\ postEndpoint = Endpoint(TRUE, FALSE, FALSE, FALSE)
  /\ log = LogInit
  /\ page = PageInit

\* time passes as in Tick, and always far enough for an armed timeout guard
\* to become due
TickTimers ==
  /\ \/ now < MaxTime /\ (poll.pc = "idle" => now < MaxStart)
     \/ br.timerArmed /\ now < br.timerDue
  /\ poll.pc \in {"idle", "fetching", "sleeping"}
  /\ now' = now + 1
  /\ UNCHANGED <<endpoint, variant, poll, call, br, registry, stale, net>>
  /\ AwaitersResume

PollCallTimers == PollCall({"TOI-700"}, 1..MaxInterval, 1..MaxTimeout, {FALSE})
PollWakeTimers == PollWakes({FALSE})
GetReturnsTimers == GetAnswers(JsonBodies(Responses), {0}, {FALSE})
JsonpCallbackTimers == ScriptCalls(Responses, {0}, {FALSE})

NextTimers ==
  \/ TickTimers
  \/ PollCallTimers
  \/ PollWakeTimers
  \/ GetReturnsTimers
  \/ GetFails
  \/ JsonpCallbackTimers
  \/ JsonpScriptError
  \/ JsonpTimeoutFires
  \/ StaleScriptRuns
  \/ StaleScriptError

\* the clock advances and a due timer's task is run; the network owes nothing
SpecTimers ==
  InitTimers /\ [][NextTimers]_vars /\ WF_vars(TickTimers) /\ WF_vars(JsonpTimeoutFires)

(* ------------------------ the researchers page ----------------------- *)
\* the logging endpoints a deployment of the page may have: empty, with a
\* marker only the newer guard knows, with the marker both know, configured
PostEndpoints ==
  { Endpoint(FALSE, FALSE, FALSE, FALSE),
    Endpoint(TRUE, FALSE, FALSE, TRUE),
    Endpoint(TRUE, TRUE, FALSE, FALSE),
    Endpoint(TRUE, FALSE, FALSE, FALSE) }

InitPage ==
  /\ endpoint = Endpoint(TRUE, FALSE, FALSE, FALSE)
  /\ postEndpoint \in PostEndpoints
  /\ variant \in Variants
  /\ now = 0
  /\ poll = PollInit
  /\ call = CallInit
  /\ br = BridgeInit
  /\ registry = {}
  /\ stale = [t \in Tokens |-> 0]
  /\ net = [script |-> FALSE, get |-> FALSE]
  /\ log = LogInit
  /\ page = PageInit

\* the bodies the server sends to the page
PageResponses ==
  { Resp("pending", Absent, Absent),
    Resp("", Num(87), Absent),
    Resp("", Num(130), Absent),
    Resp("", Num(-10), Absent),
    Resp("", InfinityValue, Absent),
    Resp("", NaNValue, Absent) }

\* the clock as the page's timers see it, while a submission is processed
TickPage ==
  /\ page.processingInProgress
  /\ now < poll.start + poll.timeout
  /\ now' = now + (pollOptions.timeout \div PageTicksPerTimeout)
  /\ UNCHANGED <<endpoint, variant, poll, call, br, registry, stale, net, postEndpoint, log, page>>

\* a page that leaves the results section as it is when processing starts
processDataKeepsResults(data, token) ==
  /\ page' = [page EXCEPT !.currentFormData = data, !.processingInProgress = TRUE,
                          !.notice = "",
                          !.submits = @ + 1, !.submitIgnored = FALSE]
  /\ log' = logToGoogleSheets(variant, postEndpoint)
  /\ LoopTop([PollInit EXCEPT !.id = data, !.interval = pollOptions.interval,
                              !.timeout = pollOptions.timeout, !.start = now],
             token, FALSE)

\* processData(data): the logger is started and not awaited, then the poll
\* loop is called with pollOptions, whose callbacks only set the waiting text
processData(data, token) ==
  /\ page' = [page EXCEPT !.currentFormData = data, !.processingInProgress = TRUE,
                          !.resultsShown = FALSE, !.notice = "",
                          !.submits = @ + 1, !.submitIgnored = FALSE]
  /\ log' = logToGoogleSheets(variant, postEndpoint)
  /\ LoopTop([PollInit EXCEPT !.id = data, !.interval = pollOptions.interval,
                              !.timeout = pollOptions.timeout, !.start = now],
             token, FALSE)

\* a page that starts processing whatever it is doing
handleFormSubmitNoGuard ==
  /\ \E data \in Forms, token \in Tokens :
       IF data = ""
         THEN /\ page' = [page EXCEPT !.notice = "MissingFields"]
              /\ UNCHANGED <<poll, call, br, registry, stale, net, log>>
         ELSE processData(data, token)
  /\ UNCHANGED <<endpoint, variant, now, postEndpoint>>

\* the submit event of the form: ignored while a submission is processed,
\* refused with an alert when a required field is empty
handleFormSubmit ==
  /\ \E data \in Forms, token \in Tokens :
       IF page.processingInProgress
         THEN /\ page' = [page EXCEPT !.submitIgnored = TRUE]
              /\ UNCHANGED <<poll, call, br, registry, stale, net, log>>
         ELSE IF data = ""
           THEN /\ page' = [page EXCEPT !.notice = "MissingFields"]
                /\ UNCHANGED <<poll, call, br, registry, stale, net, log>>
           ELSE processData(data, token)
  /\ UNCHANGED <<endpoint, variant, now, postEndpoint>>

\* the user submits the form of the freshly loaded page until one submission
\* is accepted
FirstSubmission ==
  /\ page.currentFormData = ""
  /\ handleFormSubmit

\* a logger step leaves everything but the logger alone
LoggerOnly ==
  UNCHANGED <<endpoint, variant, now, poll, call, br, registry, stale, net, postEndpoint, page>>

\* the normal POST of a logger call gets a response, ok or not
LogFirstPostReturns ==
  /\ \E outcome \in {"ok", "status"} :
       /\ log.stage = "post1"
       /\ log' = AfterFirstPost(log, outcome)
  /\ LoggerOnly

\* the normal POST of a logger call fails (network, CORS)
LogFirstPostThrows ==
  /\ log.stage = "post1"
  /\ log' = AfterFirstPost(log, "threw")
  /\ LoggerOnly

\* the no-cors POST of a logger call is sent
LogSecondPostReturns ==
  /\ log.stage = "post2"
  /\ log' = AfterSecondPost(log, "sent")
  /\ LoggerOnly

\* a page on which the logger's failure ends the processing with an error
LogSecondPostThrowsSurfaces ==
  /\ log.stage = "post2"
  /\ log' = AfterSecondPost(log, "threw")
  /\ page' = [page EXCEPT !.notice = "ProcessingError", !.processingInProgress = FALSE]
  /\ UNCHANGED <<endpoint, variant, now, poll, call, br, registry, stale, net, postEndpoint>>

\* the no-cors POST of a logger call fails
LogSecondPostThrows ==
  /\ log.stage = "post2"
  /\ log' = AfterSecondPost(log, "threw")
  /\ LoggerOnly

PollWakePage == PollWakes({FALSE})
GetReturnsPage == GetAnswers(JsonBodies(PageResponses), {0}, {FALSE})
GetFailsPage == GetThrows({"NetworkError"}, {FALSE})
JsonpCallbackPage == ScriptCalls(PageResponses, {0}, {FALSE})
StaleScriptRunsPage == StaleScriptCalls(PageResponses, {0}, {FALSE})

NextPage ==
  \/ TickPage
  \/ FirstSubmission
  \/ PollWakePage
  \/ GetReturnsPage
  \/ GetFailsPage
  \/ JsonpCallbackPage
  \/ JsonpScriptError
  \/ JsonpTimeoutFires
  \/ StaleScriptRunsPage
  \/ StaleScriptError
  \/ LogFirstPostReturns
  \/ LogFirstPostThrows
  \/ LogSecondPostReturns
  \/ LogSecondPostThrows

SpecPage == InitPage /\ [][NextPage]_vars

(* --------------------- the page used more than once ------------------ *)
\* the page with the fetcher it is shipped with (direct GET only) and its
\* logging endpoint left empty, so that every logger call returns false
\* before any request
InitResubmit ==
  /\ endpoint = Endpoint(TRUE, FALSE, FALSE, FALSE)
  /\ postEndpoint = Endpoint(FALSE, FALSE, FALSE, FALSE)
  /\ variant = "direct"
  /\ now = 0
  /\ poll = PollInit
  /\ call = CallInit
  /\ br = BridgeInit
  /\ registry = {}
  /\ stale = [t \in Tokens |-> 0]
  /\ net = [script |-> FALSE, get |-> FALSE]
  /\ log = LogInit
  /\ page = PageInit

\* the bodies the server sends in this scenario
ResubmitResponses ==
  { Resp("pending", Absent, Absent),
    Resp("", Num(87), Absent) }

\* the user submits the form, at any moment, until MaxSubmits submissions
\* have been accepted
Resubmission ==
  /\ page.submits < MaxSubmits \/ page.processingInProgress
  /\ handleFormSubmit

\* analyzeAnother(): forgets the form data and the result, hides the results
analyzeAnother ==
  /\ page' = [page EXCEPT !.currentFormData = "", !.currentResults = NoResults,
                          !.resultsShown = FALSE]
  /\ UNCHANGED <<endpoint, variant, now, poll, call, br, registry, stale, net, postEndpoint, log>>

\* downloadResults(): nothing without a stored result and stored form data,
\* else a payload made of the stored form data (the inputs of the latest
\* accepted submission) and fields of the stored result; copyResults pairs
\* the two in the same way
downloadResults(pg) ==
  IF pg.currentResults.isNull \/ pg.currentFormData = ""
    THEN [made |-> FALSE, object_id |-> "", inputsOf |-> 0,
          probability |-> Absent, resultOf |-> 0]
    ELSE [made |-> TRUE, object_id |-> pg.currentFormData, inputsOf |-> pg.submits,
          probability |-> pg.currentResults.probability,
          resultOf |-> pg.currentResults.of]

GetReturnsResubmit == GetAnswers(JsonBodies(ResubmitResponses), {0}, {FALSE})

NextResubmit ==
  \/ TickPage
  \/ Resubmission
  \/ analyzeAnother
  \/ PollWakePage
  \/ GetReturnsResubmit
  \/ GetFailsPage

SpecResubmit == InitResubmit /\ [][NextResubmit]_vars

(* ------------------------------- claims ------------------------------- *)
BridgeSettled == br.state \in {"resolved", "rejected"}

\* C1: of the three terminal events of a bridge invocation (callback, load
\* error, timeout) the first one handled decides the outcome, whichever
\* order they come in, and no later resolve or reject changes that outcome.
C1_SettlesExactlyOnce ==
  /\ [](/\ (br.state = "pending") <=> (br.timerArmed /\ br.first = "")
        /\ br.first = "callback" => (br.state = "resolved" /\ br.value.ok)
        /\ br.first = "error" => (br.state = "rejected" /\ br.value = Thrown("JsonpLoadError"))
        /\ br.first = "timeout" => (br.state = "rejected" /\ br.value = Thrown("JsonpTimeout")))
  /\ [][(BridgeSettled /\ br'.state # "pending")
          => (br'.state = br.state /\ br'.value = br.value)]_vars

\* the callback ran when the timeout guard was already due
C1_Witness ==
  br.first = "callback" /\ br.state = "resolved" /\ br.timerWasDue /\ br.settles = 1

\* C8: a settled bridge invocation has no handler on window, no armed timer
\* and no attached script; the teardown took effect once, and nothing that
\* happens to the invocation afterwards changes any of the three.
C8_TornDownOnce ==
  /\ [](BridgeSettled
          => (/\ br.token \notin registry
              /\ ~br.timerArmed
              /\ ~br.attached
              /\ br.teardowns = 1))
  /\ [][(BridgeSettled /\ br'.state # "pending")
          => (/\ br'.timerArmed = br.timerArmed
              /\ br'.attached = br.attached
              /\ br'.teardowns = br.teardowns
              /\ (br.token \in registry') = (br.token \in registry))]_vars

\* a load error reached an invocation that had already timed out: cleanup ran twice
C8_Witness ==
  br.first = "timeout" /\ br.settles = 2 /\ br.teardowns = 1 /\ ~br.req

PollTimedOut == poll.pc = "rejected" /\ poll.result = Thrown("PollTimeout")

\* x is a number other than NaN and +-Infinity
Number_isFinite(x) == x.t = "number"

\* C2: pollServerResponse resolves only with a fetch result whose terminal
\* field is a finite number, and with the first such result: on the fetch
\* that returned it, not earlier and with no further fetch.
C2_ResolvesWithFirstFinite ==
  /\ poll.pc = "resolved"
       => (/\ poll.result.ok
           /\ Number_isFinite(poll.result.data.procent)
           /\ poll.result = call.result
           /\ poll.firstFiniteAt = poll.fetchCount)
  /\ poll.firstFiniteAt # 0
       => (poll.pc = "resolved" /\ poll.fetchCount = poll.firstFiniteAt)

\* C3: the loop starts a fetch only while elapsed < timeout, and at a loop
\* top with elapsed >= timeout it ends with the poll-timeout error; it never
\* ends with that error while elapsed < timeout.
C3_DeadlineAtLoopTop ==
  /\ [](PollTimedOut => now - poll.start >= poll.timeout)
  /\ [][poll'.fetchCount > poll.fetchCount => now - poll'.start < poll'.timeout]_vars
  /\ [][(poll.pc = "sleeping" /\ poll'.pc # "sleeping" /\ now - poll.start >= poll.timeout)
          => (PollTimedOut' /\ poll'.fetchCount = poll.fetchCount)]_vars

\* the loop woke exactly when the elapsed time reached the timeout and gave up
C3_Witness ==
  PollTimedOut /\ now - poll.start = poll.timeout /\ poll.fetchCount >= 1

\* C5: whatever the fetcher throws is handed to onError and the loop goes on
\* to its sleep; pollServerResponse never rejects with a fetcher error, only
\* with the poll timeout (or with what the caller's onError itself threw).
C5_FetcherErrorsNeverReject ==
  /\ poll.pc = "rejected" => poll.result \in {Thrown("PollTimeout"), Thrown("OnErrorThrew")}
  /\ poll.errorCalls >= poll.fetchErrors
  /\ (call.stage = "done" /\ ~call.result.ok)
       => (/\ poll.lastErrArg = call.result.err
           /\ poll.pc \in {"sleeping", "rejected"})

\* every fetch so far failed and was reported, and the loop is fetching again
C5_Witness ==
  poll.fetchErrors >= 1 /\ poll.errorCalls = poll.fetchErrors /\ poll.pc = "fetching"
    /\ poll.fetchCount = poll.fetchErrors + 1

C7_AtMostOneInFlight == InFlight <= 1

\* ceil(a / b) for positive b
CeilDiv(a, b) == (a + b - 1) \div b

\* C9: with interval > 0 and timeout > 0 the loop makes at most
\* ceil(timeout / interval) + 1 fetch attempts.
C9_FetchCountBound ==
  poll.pc # "idle" => poll.fetchCount <= CeilDiv(poll.timeout, poll.interval) + 1

\* the loop timed out after more than one attempt
C9_Witness ==
  PollTimedOut /\ poll.fetchCount >= 2 /\ poll.fetchCount = CeilDiv(poll.timeout, poll.interval)

\* the endpoint is empty or contains a placeholder marker the loaded version looks for
EndpointUnset ==
  \/ ~endpoint.nonEmpty
  \/ endpoint.hasDeployId
  \/ variant = "bridge" /\ (endpoint.hasDeployIdHere \/ endpoint.hasDeployUrl)

\* C10: with an empty or placeholder endpoint every fetchServerResponse call
\* fails with the configuration error in the step that makes it, and no
\* script element is injected and no GET issued.
C10_UnsetEndpointNoNetwork ==
  EndpointUnset
    => (/\ ~net.script /\ ~net.get /\ InFlight = 0
        /\ br.state = "none" /\ registry = {}
        /\ call.stage \in {"none", "done"}
        /\ call.stage = "done" => call.result = Thrown("ConfigError")
        /\ poll.fetchErrors = poll.fetchCount)

\* the loop has called the fetcher twice and got the configuration error
C10_Witness ==
  EndpointUnset /\ poll.fetchCount = 2 /\ poll.lastErrArg = "ConfigError" /\ poll.errorCalls = 2

\* C4: against a server that answers {status: "pending"} to every request,
\* the loop never resolves, has called onPending at least once for every fetch
\* that settled, and ends with the poll-timeout error; with interval 10 and
\* timeout 50 onPending has then been called at least 4 times.
C4_AlwaysPendingTimesOut ==
  /\ [](/\ poll.pc # "resolved"
        /\ poll.pendingCalls >= poll.fetchCount - (IF poll.pc = "fetching" THEN 1 ELSE 0)
        /\ poll.pc = "rejected" => (PollTimedOut /\ poll.pendingCalls >= 4))
  /\ <>PollTimedOut

\* five fetches, each answered pending, then the timeout
C4_Witness ==
  /\ PollTimedOut /\ poll.interval = 10 /\ poll.timeout = 50
  /\ poll.fetchCount = 5 /\ poll.pendingCalls = 10 /\ poll.errorCalls = 0

FetchReturnedData ==
  call.stage = "done" /\ call.result.ok /\ poll.errorCalls = poll.fetchErrors

\* C13: in an iteration whose fetch result is not terminal, with the explicit
\* "pending" marker or without it, onPending is invoked exactly once before
\* the loop goes to sleep.
C13_OnPendingOncePerIteration ==
  (call.stage = "done" /\ call.result.ok /\ poll.pc = "sleeping"
     /\ ~HasNumericProcent(call.result.data))
    => poll.iterPending = 1

\* C14 as claimed: a fetch result with the explicit "pending" marker makes the
\* loop invoke onPending and go on to the next iteration; it never returns in
\* that iteration.
C14_MarkedNeverReturns ==
  (call.stage = "done" /\ call.result.ok /\ IsPendingMarked(call.result.data))
    => (poll.iterPending >= 1 /\ poll.pc # "resolved")

\* C14 as amended: a fetch result with the explicit "pending" marker makes the
\* loop invoke onPending; the loop then goes on to the next iteration instead
\* of returning unless the same result carries a numeric procent, and a result
\* with both is returned in that iteration once onPending has returned.
C14_MarkedReturnsOnlyWithNumber ==
  (call.stage = "done" /\ call.result.ok /\ IsPendingMarked(call.result.data))
    => (/\ poll.iterPending >= 1
        /\ poll.pc \in {"sleeping", "resolved", "rejected"}
        /\ poll.pc = "resolved"
             => (HasNumericProcent(call.result.data) /\ poll.result = call.result
                 /\ poll.iterPending = 1)
        /\ (HasNumericProcent(call.result.data) /\ poll.errorCalls = poll.fetchErrors)
             => poll.pc = "resolved")

\* {status: "pending", procent: 87} was reported as pending and returned at once
C14_Witness ==
  /\ poll.pc = "resolved" /\ IsPendingMarked(poll.result.data)
  /\ poll.result.data.procent = Num(87) /\ poll.iterPending = 1 /\ poll.fetchCount = 1

\* C15: a response ends the loop successfully if and only if its procent is
\* a finite number, whatever its status string says: absent, non-numeric and
\* non-finite values never end it.
C15_CompleteIffFiniteNumber ==
  (FetchReturnedData /\ poll.pc \in {"sleeping", "resolved"})
    => (poll.pc = "resolved"
          <=> (~call.result.data.isNull /\ Number_isFinite(call.result.data.procent)))

\* C16: a response with a number under either spelling of the terminal field,
\* percent or procent, ends the loop successfully.
C16_BothSpellingsRecognized ==
  (FetchReturnedData /\ ~call.result.data.isNull
     /\ (Number_isFinite(call.result.data.procent) \/ Number_isFinite(call.result.data.percent)))
    => (poll.pc = "resolved" /\ poll.result = call.result)

\* C12: a bridge invocation is pending only with its timeout guard armed for
\* timeoutMs after the call; when neither the callback nor a load error comes
\* first, the guard rejects it with the timeout error, not before it is due,
\* so every invocation eventually settles.
C12_TimeoutSettlesBridge ==
  /\ [](br.state = "pending" => (br.timerArmed /\ br.timerDue <= now + JsonpTimeoutTicks))
  /\ [](br.first = "timeout"
          => (br.value = Thrown("JsonpTimeout") /\ br.state = "rejected" /\ br.timerWasDue))
  /\ (br.state = "pending") ~> BridgeSettled

\* the guard rejected an invocation whose script request is still unanswered
C12_Witness ==
  br.first = "timeout" /\ br.state = "rejected" /\ br.req /\ br.settles = 1

\* the logging endpoint is empty or contains a placeholder marker the loaded
\* version of logToGoogleSheets looks for
PostEndpointUnset ==
  \/ ~postEndpoint.nonEmpty
  \/ postEndpoint.hasDeployId
  \/ variant = "bridge" /\ (postEndpoint.hasDeployIdHere \/ postEndpoint.hasDeployUrl)

\* the analysis flow: everything the poll loop and the page read or write
flow == <<now, poll, call, br, registry, stale, net, page>>

\* C17: processData starts the poll loop in the step that starts the logger,
\* without waiting for it; no step of the logger, whatever its outcome and
\* whenever it comes, changes anything the poll loop or the page reads, no
\* step of the flow changes the logger, and what the page finally shows is
\* decided by the poll's outcome alone.
C17_LoggerNeverAffectsFlow ==
  /\ [](log.stage # "none" => (poll.fetchCount >= 1 /\ page.currentFormData = poll.id))
  /\ [][(log.stage # "none" /\ log' # log) => flow' = flow]_vars
  /\ [][(log.stage # "none" /\ flow' # flow) => log' = log]_vars
  /\ [](page.resultsShown
          => (/\ poll.pc = "resolved"
              /\ page.currentResults.procent = poll.result.data.procent
              /\ ~page.processingInProgress))
  /\ []((page.currentFormData # "" /\ ~page.processingInProgress /\ ~page.resultsShown)
          => (PollTimedOut /\ page.notice = "NoResponse"))

\* the result is on the page while the logger's first POST is still unanswered
C17_Witness ==
  /\ page.resultsShown /\ page.currentResults.procent = Num(87)
  /\ log.stage = "post1" /\ poll.fetchCount >= 2

\* C18: a logger call issues the normal POST first and the no-cors POST if
\* and only if the first came back with a bad status or threw; a first POST
\* that is ok returns true with no second POST; at most two POSTs, in that order.
C18_PostsInOrder ==
  /\ log.posts \in {<<>>, <<"cors">>, <<"cors", "no-cors">>}
  /\ log.stage = "post1" => (log.posts = <<"cors">> /\ log.first = "")
  /\ (Len(log.posts) = 2) <=> (log.first \in {"status", "threw"})
  /\ log.first = "ok"
       => (log.stage = "done" /\ log.result = "true" /\ log.posts = <<"cors">>)
  /\ log.second # "" => Len(log.posts) = 2

\* a bad status on the normal POST was followed by a no-cors POST that was sent
C18_Witness ==
  /\ log.first = "status" /\ log.posts = <<"cors", "no-cors">>
  /\ log.second = "sent" /\ log.stage = "done" /\ log.result = "true"

\* C19 as claimed: with a configured endpoint the call returns true if one of
\* its two POSTs was dispatched without throwing and false only when both
\* threw; a bad status followed by a no-cors POST that throws gives true.
C19_TrueUnlessBothThrew ==
  (log.stage = "done" /\ ~PostEndpointUnset)
    => (/\ (log.first \in {"ok", "status"} \/ log.second = "sent") => log.result = "true"
        /\ log.result = "false" => (log.first = "threw" /\ log.second = "threw"))

\* C19 as amended: with a configured endpoint the call returns true if the
\* normal POST came back ok or the no-cors POST was dispatched without
\* throwing, and false whenever the no-cors POST threw; a bad status followed
\* by a no-cors POST that throws gives false.
C19_TrueIffOkOrSecondSent ==
  (log.stage = "done" /\ ~PostEndpointUnset)
    => (/\ log.result \in {"true", "false"}
        /\ log.result = "true" <=> (log.first = "ok" \/ log.second = "sent")
        /\ log.result = "false" <=> log.second = "threw"
        /\ log.first # "")

\* a bad status on the normal POST, then the no-cors POST threw: false
C19_Witness ==
  /\ log.stage = "done" /\ log.first = "status" /\ log.second = "threw"
  /\ log.result = "false" /\ ~PostEndpointUnset

\* C20: with an empty or placeholder logging endpoint logToGoogleSheets
\* returns false in the step that calls it and issues no POST.
C20_UnsetLoggerNoPost ==
  PostEndpointUnset
    => (/\ log.stage \in {"none", "done"}
        /\ log.posts = <<>> /\ log.first = "" /\ log.second = ""
        /\ log.stage = "done" => log.result = "false")

\* the logger was skipped and the poll loop of the same submission is running
C20_Witness ==
  /\ PostEndpointUnset /\ postEndpoint.nonEmpty
  /\ log.stage = "done" /\ log.result = "false" /\ poll.fetchCount >= 1

\* C25: after every iteration that does not end the run, a failed fetch
\* included, the loop sleeps for the full interval: a sleeping loop wakes no
\* earlier than interval after its last fetch began, and two consecutive
\* fetch attempts of a run start at least interval apart.
C25_FullIntervalBetweenFetches ==
  /\ [](poll.pc = "sleeping" => poll.wakeAt >= poll.lastFetchAt + poll.interval)
  /\ [][(poll.fetchCount >= 1 /\ poll'.fetchCount = poll.fetchCount + 1)
          => poll'.lastFetchAt >= poll.lastFetchAt + poll.interval]_vars

\* the first fetch failed at once and the second began exactly interval later
C25_Witness ==
  /\ poll.fetchCount = 2 /\ poll.fetchErrors = 1 /\ poll.pc = "fetching"
  /\ poll.lastFetchAt = poll.start + poll.interval

\* C27: a fetch that began before the deadline and returns a finite numeric
\* procent makes the run resolve with it however late it arrives; between
\* the fetch completing and the return the deadline is not read, so no run
\* goes from fetching to the poll-timeout error.
C27_LateResultStillReturned ==
  /\ []((FetchReturnedData /\ ~call.result.data.isNull
          /\ Number_isFinite(call.result.data.procent))
         => (poll.pc = "resolved" /\ poll.result = call.result
             /\ poll.lastFetchAt - poll.start < poll.timeout))
  /\ [][(poll.pc = "fetching" /\ poll'.pc = "rejected")
          => poll'.result # Thrown("PollTimeout")]_vars

\* the run resolved when the elapsed time had passed the timeout
C27_Witness ==
  /\ poll.pc = "resolved" /\ now - poll.start > poll.timeout
  /\ poll.result.data.procent = Num(87)

\* C28: with an empty or placeholder GET endpoint a run makes no network
\* call, hands the configuration error to onError once per iteration, sleeps
\* the interval after each, never resolves, and ends only with the
\* poll-timeout error (or with what the caller's onError itself threw).
C28_ConfigErrorFatalToCallOnly ==
  EndpointUnset
    => (/\ ~net.script /\ ~net.get /\ InFlight = 0
        /\ poll.errorCalls = poll.fetchCount /\ poll.fetchErrors = poll.fetchCount
        /\ poll.pendingCalls = 0
        /\ poll.fetchCount >= 1 => poll.lastErrArg = "ConfigError"
        /\ poll.pc \in {"idle", "sleeping", "rejected"}
        /\ poll.pc = "sleeping" => poll.wakeAt = poll.lastFetchAt + poll.interval
        /\ poll.pc = "rejected"
             => poll.result \in {Thrown("PollTimeout"), Thrown("OnErrorThrew")})

\* three iterations, each reported to onError, then the poll timeout
C28_Witness ==
  /\ EndpointUnset /\ PollTimedOut
  /\ poll.fetchCount = 3 /\ poll.errorCalls = 3 /\ poll.interval = 1

\* C29: an exception of onPending is caught in the iteration and handed to
\* onError, after which the loop sleeps as usual; an exception of onError is
\* not caught and rejects pollServerResponse; no exception of onPending ever
\* leaves the function.
C29_CallbackExceptions ==
  /\ [][(poll'.errorCalls = poll.errorCalls + 1 /\ poll'.fetchErrors = poll.fetchErrors)
          => (/\ poll'.lastErrArg = "OnPendingThrew"
              /\ poll'.pendingCalls > poll.pendingCalls
              /\ \/ poll'.pc = "sleeping" /\ poll'.wakeAt = now + poll.interval
                 \/ poll'.pc = "rejected" /\ poll'.result = Thrown("OnErrorThrew"))]_vars
  /\ [](poll.result # Thrown("OnPendingThrew"))
  /\ [](poll.result = Thrown("OnErrorThrew") => (poll.pc = "rejected" /\ poll.errorCalls >= 1))
  /\ [](poll.errorCalls >= poll.fetchErrors)

\* onPending threw in the first iteration and the loop is fetching again
C29_Witness ==
  /\ poll.errorCalls = 1 /\ poll.fetchErrors = 0 /\ poll.lastErrArg = "OnPendingThrew"
  /\ poll.pc = "fetching" /\ poll.fetchCount = 2

\* C24: bridge invocations do not collide: a script that belongs to an
\* earlier invocation, when it loads or fails, neither settles the latest
\* invocation nor removes its handler from window.
C24_InvocationsDoNotCollide ==
  [][SumStale(Tokens)' < SumStale(Tokens)
       => (br'.state = br.state /\ br'.value = br.value /\ registry' = registry)]_vars

(* ------------------------ the page, resubmitted ---------------------- *)
\* C21: whenever a result and form data are both stored, so that download and
\* copy produce something, the result was created by the processing of the
\* submission the form data belongs to
C21_ResultBelongsToSubmission ==
  downloadResults(page).made =>
    downloadResults(page).resultOf = downloadResults(page).inputsOf

\* C22: when processing ends with the poll rejected, the warning about the
\* missing response is presented, the results section is hidden and nothing
\* is stored as a result; the results section is only ever shown with the
\* server result of the latest submission, never with the local estimator's
C22_NoResultAfterTimeout ==
  /\ [][(page.processingInProgress /\ ~page'.processingInProgress /\ poll'.pc = "rejected")
         => (/\ page'.notice = "NoResponse"
             /\ ~page'.resultsShown
             /\ page'.currentResults = page.currentResults)]_vars
  /\ []((~page.processingInProgress /\ poll.pc = "rejected") => ~page.resultsShown)
  /\ [](page.resultsShown =>
          (/\ poll.pc = "resolved"
           /\ ~page.currentResults.isNull
           /\ page.currentResults.summary = "server"
           /\ page.currentResults.of = page.submits
           /\ page.currentResults.procent = poll.result.data.procent))

\* a second submission timed out while the result of the first is still stored
C22_Witness ==
  /\ ~page.processingInProgress
  /\ PollTimedOut
  /\ page.submits = 2
  /\ page.notice = "NoResponse"
  /\ ~page.resultsShown
  /\ ~page.currentResults.isNull

\* C23: the probability of the displayed result is the server's procent / 100
\* cut to [0, 1] (in hundredths: the value itself from 0 to 100, 100 above
\* 100 and for Infinity, 0 below 0)
C23_ProbabilityIsClamped ==
  page.resultsShown =>
    LET r == page.currentResults
        p == poll.result.data.procent
    IN /\ poll.pc = "resolved"
       /\ r.procent = p
       /\ (Number_isFinite(p) /\ p.v >= 0 /\ p.v <= 100) => r.probability = Num(p.v)
       /\ (Number_isFinite(p) /\ p.v > 100) => r.probability = Num(100)
       /\ (Number_isFinite(p) /\ p.v < 0) => r.probability = Num(0)
       /\ p.t = "infinity" => r.probability = Num(100)

\* the server answered 130 and the page shows probability 1
C23_Witness ==
  /\ page.resultsShown
  /\ poll.result.data.procent = Num(130)
  /\ page.currentResults.probability = Num(100)

\* C26: a submit event that arrives while a submission is processed changes
\* nothing (no logger call, no new poll loop, form data, result and results
\* section as they were), and while processing goes on the poll session stays
\* the one the accepted submission started
C26_SubmitIgnoredWhileProcessing ==
  /\ [][(page.processingInProgress
          /\ (page'.submits # page.submits \/ page'.submitIgnored # page.submitIgnored))
         => (/\ page' = [page EXCEPT !.submitIgnored = TRUE]
             /\ poll' = poll /\ call' = call /\ net' = net /\ log' = log
             /\ br' = br /\ registry' = registry /\ stale' = stale /\ now' = now)]_vars
  /\ [][page.processingInProgress
         => (/\ page'.submits = page.submits
             /\ poll'.id = poll.id /\ poll'.start = poll.start
             /\ poll'.fetchCount >= poll.fetchCount
             /\ log' = log)]_vars
  /\ [](InFlight <= 1)

\* a submit event was dropped between the second fetch and the end of the loop
C26_Witness ==
  /\ page.processingInProgress
  /\ page.submitIgnored
  /\ page.submits = 1
  /\ poll.fetchCount = 2
  /\ poll.pc = "fetching"

====
